---- MODULE Spec2Model ----
(***************************************************************************)
(* TestTracker server: the credential store (server/src/passwords.rs), the *)
(* request handler (server/src/main.rs), the record store query            *)
(* (server/src/tests_and_completions.rs) and the error conversions of the  *)
(* shared crate (shared/src/error.rs), over the three tables of            *)
(* server/src/db/schema.rs; and the client application                     *)
(* (client/src/main.rs, client/src/web.rs, client/src/comps/login_form.rs).*)
(***************************************************************************)
EXTENDS Naturals, Sequences, FiniteSets, TLC

VARIABLES
    users,        \* table users: rows [id, username, hashed_password]
    tests,        \* table tests: rows [id, subject, ..., user_id]
    completions,  \* table completions: rows [id, achieved_mark, ..., test_id]
    dbUp,         \* whether PgConnection::establish succeeds
    tasks,        \* one tokio task per inbound request: position, message, locals
    responses,    \* per task, the responses handed to req.respond, in order
    created,      \* history: the add_new_user calls that returned Ok
    tcCall,       \* the last get_all_tests_and_completions_for_user call, with
                  \* the tables it read
    phase,          \* client: "boot" before App::create, "running" after
    app,            \* client: struct App
    form,           \* client: LoginOrCreateAccountForm, its tab and error
    localStorage,   \* client: window.localStorage, key -> Option<String>
    sessionStorage, \* client: window.sessionStorage, key -> Option<String>
    inflight,       \* client: the callback futures awaiting a response
    sent,           \* client: the ClientToServerMsg posted so far, in order
    alerts,         \* client: the texts given to window.alert, in order
    submissions,    \* client: number of onsubmit callbacks the form has emitted
    last,           \* client history: the latest step and the state before it
    wire            \* a value on its way through ron::to_string and ron::from_str

serverVars == <<users, tests, completions, dbUp, tasks, responses, created, tcCall>>
clientVars == <<phase, app, form, localStorage, sessionStorage, inflight, sent,
                alerts, submissions, last, wire>>
vars == <<serverVars, clientVars>>

----------------------------------------------------------------------------
(* Bounds and input sets *)

MaxTasks == 2
NumSalts == 2
MaxTests == 2
MaxCompletions == 2

TaskIds == 1..MaxTasks
Salts == 1..NumSalts

\* A string is the sequence of its characters.
Usernames == { <<"a", "l">>, <<"A", "l">>, <<"b", "0">> }
Passwords == { "secret123", "wrong" }

NONE == [tag |-> "None"]
Some(v) == [tag |-> "Some", value |-> v]

----------------------------------------------------------------------------
(* Strings *)

\* char::to_lowercase on the characters used here
ToLowerChar(c) ==
    CASE c = "A" -> "a"
      [] c = "L" -> "l"
      [] c = "B" -> "b"
      [] OTHER -> c

\* str::to_lowercase
to_lowercase(s) == [i \in DOMAIN s |-> ToLowerChar(s[i])]

----------------------------------------------------------------------------
(* Results and errors *)

Ok(v) == [ok |-> TRUE, value |-> v]
Err(e) == [ok |-> FALSE, error |-> e]

\* diesel::result::Error, the variants the queries produce
DsErr_NotFound == [tag |-> "NotFound"]
DsErr_UniqueViolation(info) ==
    [tag |-> "DatabaseError", kind |-> "UniqueViolation", info |-> info]

\* argon2::password_hash::Error::Password
HashingError_Password == "Password"

\* NewUserError (passwords.rs), with its two From conversions
NewUserError_DbError(e) == [tag |-> "DbError", inner |-> e]
NewUserError_HashingError(e) == [tag |-> "HashingError", inner |-> e]

\* shared Error and DieselError
SharedError_DatabaseError(e) == [tag |-> "DatabaseError", inner |-> e]
SharedError_InvalidPassword == [tag |-> "InvalidPassword"]
SharedError_HashingError(s) == [tag |-> "HashingError", text |-> s]
DieselError_NotFound == [tag |-> "NotFound"]
DieselError_UniqueViolation(message, details, hint) ==
    [tag |-> "UniqueViolation", message |-> message, details |-> details,
     hint |-> hint]
DieselError_Other(s) == [tag |-> "Other", text |-> s]

\* A mutant of DieselErrorFrom: every database error becomes Other.
DieselErrorFromAllOther(value) == DieselError_Other(<<"Debug", value>>)

\* impl From<diesel::result::Error> for DieselError
DieselErrorFrom(value) ==
    CASE value.tag = "NotFound" -> DieselError_NotFound
      [] value.tag = "DatabaseError" /\ value.kind = "UniqueViolation" ->
            DieselError_UniqueViolation(value.info.message, value.info.details,
                                        value.info.hint)
      [] OTHER -> DieselError_Other(<<"Debug", value>>)

\* impl From<password_hash::Error> for Error (shared crate, feature "hashing")
SharedErrorFromHashing(value) ==
    IF value = HashingError_Password
    THEN SharedError_InvalidPassword
    ELSE SharedError_HashingError(<<"Debug", value>>)

\* impl From<NewUserError> for SharedError: format!("{err} ({err:?})")
SharedErrorFrom(value) ==
    CASE value.tag = "DbError" ->
            SharedError_DatabaseError(DieselErrorFrom(value.inner))
      [] value.tag = "HashingError" ->
            SharedError_HashingError(
                <<IF value.inner = HashingError_Password
                  THEN "invalid password" ELSE "hashing error",
                  " (", value.inner, ")">>)

\* Result::map_err(|e| e.into())
MapErrInto(result) ==
    IF result.ok THEN result ELSE Err(SharedErrorFrom(result.error))

----------------------------------------------------------------------------
(* Password hashing (argon2 crate), as an ideal salted hash *)

\* Argon2::default() output bytes: a function of the password and the salt
Argon2Output(password, salt) == <<"argon2id-output", password, salt>>

\* PasswordHash::to_string: the PHC string "$argon2id$...$salt$hash"
PhcToString(h) == <<"$argon2id", h.salt, h.hash>>

\* PasswordHash::new: parse a PHC string
PasswordHashNew(s) ==
    IF Len(s) = 3 /\ s[1] = "$argon2id"
    THEN Ok([salt |-> s[2], hash |-> s[3]])
    ELSE Err("PhcStringField")

\* hash_and_salt_password, for the salt rand::random() drew
hash_and_salt_password(password, salt) ==
    Ok(PhcToString([salt |-> salt, hash |-> Argon2Output(password, salt)]))

\* Argon2::verify_password: recompute with the stored salt and compare
verify_password(password, parsed) ==
    IF Argon2Output(password, parsed.salt) = parsed.hash
    THEN Ok("verified")
    ELSE Err(HashingError_Password)

----------------------------------------------------------------------------
(* Table users and the credential store *)

\* A mutant of SharedUserFrom: the whole row is passed on.
SharedUserFromWholeRow(row) == row

\* impl From<User> for SharedUser: drops hashed_password
SharedUserFrom(row) == [id |-> row.id, username |-> row.username]

\* The id the store gives a new users row: unique among the rows.
FreshUserId(usersTbl) == Cardinality(usersTbl) + 1

\* The uniqueness constraint on users.username, as the store reports it.
UsernameTaken(usersTbl, name) == \E u \in usersTbl : u.username = name

UniqueViolationInfo(name) ==
    [message |-> "duplicate key value violates unique constraint users_username_key",
     details |-> Some(<<"Key (", "username", ")=(">> \o name
                       \o <<") already exists.">>),
     hint |-> NONE]

\* A mutant of ValidateUserResults: the filter compares the username as given.
ValidateUserResultsNoFold(usersTbl, username, password) ==
    LET matches == { u \in usersTbl : u.username = username }
    IN IF matches = {}
       THEN { Err(NewUserError_DbError(DsErr_NotFound)) }
       ELSE { LET parsed == PasswordHashNew(u.hashed_password)
              IN IF ~parsed.ok
                 THEN Err(NewUserError_HashingError(parsed.error))
                 ELSE LET v == verify_password(password, parsed.value)
                      IN IF ~v.ok
                         THEN Err(NewUserError_HashingError(v.error))
                         ELSE Ok([id |-> u.id, username |-> u.username])
              : u \in matches }

\* A mutant of ValidateUserResults: an absent row is reported as a failed
\* verification.
ValidateUserResultsAbsentIsPassword(usersTbl, username, password) ==
    LET matches == { u \in usersTbl : u.username = to_lowercase(username) }
    IN IF matches = {}
       THEN { Err(NewUserError_HashingError(HashingError_Password)) }
       ELSE { LET parsed == PasswordHashNew(u.hashed_password)
              IN IF ~parsed.ok
                 THEN Err(NewUserError_HashingError(parsed.error))
                 ELSE LET v == verify_password(password, parsed.value)
                      IN IF ~v.ok
                         THEN Err(NewUserError_HashingError(v.error))
                         ELSE Ok([id |-> u.id, username |-> u.username])
              : u \in matches }

\* validate_user, once the connection is established: the results it can
\* return (.first() takes whichever matching row the store yields first).
ValidateUserResults(usersTbl, username, password) ==
    LET matches == { u \in usersTbl : u.username = to_lowercase(username) }
    IN IF matches = {}
       THEN { Err(NewUserError_DbError(DsErr_NotFound)) }
       ELSE { LET parsed == PasswordHashNew(u.hashed_password)
              IN IF ~parsed.ok
                 THEN Err(NewUserError_HashingError(parsed.error))
                 ELSE LET v == verify_password(password, parsed.value)
                      IN IF ~v.ok
                         THEN Err(NewUserError_HashingError(v.error))
                         ELSE Ok([id |-> u.id, username |-> u.username])
              : u \in matches }

\* A mutant of AddNewUserOutcome: the username is stored as given.
AddNewUserOutcomeNoFold(usersTbl, username, password, salt) ==
    LET hashed == hash_and_salt_password(password, salt)
        name == username
    IN IF ~hashed.ok
       THEN [result |-> Err(NewUserError_HashingError(hashed.error)),
             users |-> usersTbl]
       ELSE IF UsernameTaken(usersTbl, name)
       THEN [result |-> Err(NewUserError_DbError(
                            DsErr_UniqueViolation(UniqueViolationInfo(name)))),
             users |-> usersTbl]
       ELSE LET row == [id |-> FreshUserId(usersTbl), username |-> name,
                        hashed_password |-> hashed.value]
            IN [result |-> Ok(SharedUserFrom(row)),
                users |-> usersTbl \cup {row}]

\* A mutant of AddNewUserOutcome: Ok is returned but no row is inserted.
AddNewUserOutcomeNoInsert(usersTbl, username, password, salt) ==
    LET hashed == hash_and_salt_password(password, salt)
        name == to_lowercase(username)
    IN IF ~hashed.ok
       THEN [result |-> Err(NewUserError_HashingError(hashed.error)),
             users |-> usersTbl]
       ELSE IF UsernameTaken(usersTbl, name)
       THEN [result |-> Err(NewUserError_DbError(
                            DsErr_UniqueViolation(UniqueViolationInfo(name)))),
             users |-> usersTbl]
       ELSE LET row == [id |-> FreshUserId(usersTbl), username |-> name,
                        hashed_password |-> hashed.value]
            IN [result |-> Ok(SharedUserFrom(row)),
                users |-> usersTbl]

\* A mutant of AddNewUserOutcome: a row is inserted whether or not the
\* username is taken.
AddNewUserOutcomeNoConstraint(usersTbl, username, password, salt) ==
    LET hashed == hash_and_salt_password(password, salt)
        name == to_lowercase(username)
    IN IF ~hashed.ok
       THEN [result |-> Err(NewUserError_HashingError(hashed.error)),
             users |-> usersTbl]
       ELSE LET row == [id |-> FreshUserId(usersTbl), username |-> name,
                        hashed_password |-> hashed.value]
            IN [result |-> Ok(SharedUserFrom(row)),
                users |-> usersTbl \cup {row}]

\* A mutant of AddNewUserOutcome: a taken username is reported, and the
\* stored row takes the new password hash.
AddNewUserOutcomeUpsert(usersTbl, username, password, salt) ==
    LET hashed == hash_and_salt_password(password, salt)
        name == to_lowercase(username)
    IN IF ~hashed.ok
       THEN [result |-> Err(NewUserError_HashingError(hashed.error)),
             users |-> usersTbl]
       ELSE IF UsernameTaken(usersTbl, name)
       THEN [result |-> Err(NewUserError_DbError(
                            DsErr_UniqueViolation(UniqueViolationInfo(name)))),
             users |-> { IF u.username = name
                         THEN [u EXCEPT !.hashed_password = hashed.value]
                         ELSE u : u \in usersTbl }]
       ELSE LET row == [id |-> FreshUserId(usersTbl), username |-> name,
                        hashed_password |-> hashed.value]
            IN [result |-> Ok(SharedUserFrom(row)),
                users |-> usersTbl \cup {row}]

\* add_new_user, once the connection is established: the result and the
\* table after the INSERT ... RETURNING statement.
AddNewUserOutcome(usersTbl, username, password, salt) ==
    LET hashed == hash_and_salt_password(password, salt)
        name == to_lowercase(username)
    IN IF ~hashed.ok
       THEN [result |-> Err(NewUserError_HashingError(hashed.error)),
             users |-> usersTbl]
       ELSE IF UsernameTaken(usersTbl, name)
       THEN [result |-> Err(NewUserError_DbError(
                            DsErr_UniqueViolation(UniqueViolationInfo(name)))),
             users |-> usersTbl]
       ELSE LET row == [id |-> FreshUserId(usersTbl), username |-> name,
                        hashed_password |-> hashed.value]
            IN [result |-> Ok(SharedUserFrom(row)),
                users |-> usersTbl \cup {row}]

----------------------------------------------------------------------------
(* The request handler: one task per request (main.rs) *)

\* ClientToServerMsg
Msg_Authenticate(u, p) == [type |-> "Authenticate", username |-> u, password |-> p]
Msg_CreateUser(u, p) == [type |-> "CreateUser", username |-> u, password |-> p]
Msg_GetTestsAndCompletions(user_id) ==
    [type |-> "GetTestsAndCompletions", user_id |-> user_id]

Requests ==
    { Msg_Authenticate(u, p) : u \in Usernames, p \in Passwords }
    \cup { Msg_CreateUser(u, p) : u \in Usernames, p \in Passwords }

\* The GetTestsAndCompletions requests a client sends
GetRequests == { Msg_GetTestsAndCompletions(1) }

\* A request body ron::from_str rejects
Malformed == [type |-> "Malformed"]

NoCall == [fn |-> "none"]
IdleTask == [pc |-> "idle", msg |-> [type |-> "none"], call |-> NoCall, before |-> {}]

\* no_cors_header
no_cors_header == [field |-> "Access-Control-Allow-Origin", value |-> "*"]

\* ServerToClientMsg::AuthenticationResponse in a Response with the header
\* (Response::from_string: status 200)
AuthenticationResponse(payload) ==
    [type |-> "AuthenticationResponse", payload |-> payload,
     status |-> 200, headers |-> {no_cors_header}]

\* A mutant of StoreFunctionFor: the two arms are swapped.
StoreFunctionForSwapped(msg) ==
    CASE msg.type = "Authenticate" -> "add_new_user"
      [] msg.type = "CreateUser" -> "validate_user"
      [] OTHER -> "none"

\* The match in handle_request: the store function of each variant. The match
\* has an Authenticate arm and a CreateUser arm, and none for
\* GetTestsAndCompletions.
StoreFunctionFor(msg) ==
    CASE msg.type = "Authenticate" -> "validate_user"
      [] msg.type = "CreateUser" -> "add_new_user"
      [] OTHER -> "none"

\* establish_connection panics when the store cannot be reached; the panic
\* ends the task.
Panicked(t) ==
    /\ tasks' = [tasks EXCEPT ![t].pc = "panicked"]
    /\ UNCHANGED <<users, created>>

\* for req in server.incoming_requests() { tokio::spawn(handle_request(req)) }:
\* the tasks are spawned in the order the requests arrive.
SpawnedInOrder(t) == \A s \in TaskIds : s < t => tasks[s].pc # "idle"

\* handle_request up to the match: read the body and decode it.
Receive(t) ==
    /\ tasks[t].pc = "idle"
    /\ SpawnedInOrder(t)
    /\ \E body \in Requests \cup GetRequests \cup {Malformed} :
          tasks' = [tasks EXCEPT ![t] =
                      [@ EXCEPT !.pc = IF body = Malformed THEN "failed" ELSE "parsed",
                                !.msg = body]]
    /\ UNCHANGED <<users, tests, completions, dbUp, responses, created, tcCall>>
    /\ UNCHANGED clientVars

\* The call of validate_user in the Authenticate arm.
CallValidateUser(t) ==
    /\ tasks[t].pc = "parsed"
    /\ StoreFunctionFor(tasks[t].msg) = "validate_user"
    /\ IF ~dbUp
       THEN Panicked(t)
       ELSE /\ \E r \in ValidateUserResults(users, tasks[t].msg.username,
                                            tasks[t].msg.password) :
                 tasks' = [tasks EXCEPT ![t] =
                     [@ EXCEPT !.pc = "respond",
                               !.call = [fn |-> "validate_user",
                                         username |-> tasks[t].msg.username,
                                         password |-> tasks[t].msg.password,
                                         result |-> r],
                               !.before = created]]
            /\ UNCHANGED <<users, created>>
    /\ UNCHANGED <<tests, completions, dbUp, responses, tcCall>>
    /\ UNCHANGED clientVars

\* The call of add_new_user in the CreateUser arm.
CallAddNewUser(t) ==
    /\ tasks[t].pc = "parsed"
    /\ StoreFunctionFor(tasks[t].msg) = "add_new_user"
    /\ IF ~dbUp
       THEN Panicked(t)
       ELSE \E salt \in Salts :
              LET out == AddNewUserOutcome(users, tasks[t].msg.username,
                                           tasks[t].msg.password, salt)
              IN /\ users' = out.users
                 /\ tasks' = [tasks EXCEPT ![t] =
                      [@ EXCEPT !.pc = "respond",
                                !.call = [fn |-> "add_new_user",
                                          username |-> tasks[t].msg.username,
                                          password |-> tasks[t].msg.password,
                                          result |-> out.result],
                                !.before = created]]
                 /\ created' =
                      IF out.result.ok
                      THEN created \cup {[username |-> tasks[t].msg.username,
                                          password |-> tasks[t].msg.password,
                                          user |-> out.result.value]}
                      ELSE created
    /\ UNCHANGED <<tests, completions, dbUp, responses, tcCall>>
    /\ UNCHANGED clientVars

\* A decoded message no arm of the match takes: the handler ends without
\* calling a store function and without a response.
NoArm(t) ==
    /\ tasks[t].pc = "parsed"
    /\ StoreFunctionFor(tasks[t].msg) = "none"
    /\ tasks' = [tasks EXCEPT ![t].pc = "unhandled"]
    /\ UNCHANGED <<users, tests, completions, dbUp, responses, created, tcCall>>
    /\ UNCHANGED clientVars

\* req.respond(Response::from_string(ron::to_string(
\*     &AuthenticationResponse(result.map_err(|e| e.into())))).with_header(..))
Respond(t) ==
    /\ tasks[t].pc = "respond"
    /\ responses' = [responses EXCEPT ![t] =
           Append(@, AuthenticationResponse(MapErrInto(tasks[t].call.result)))]
    /\ tasks' = [tasks EXCEPT ![t].pc = "done"]
    /\ UNCHANGED <<users, tests, completions, dbUp, created, tcCall>>
    /\ UNCHANGED clientVars

\* The store becomes unreachable, or reachable again.
DbStop ==
    /\ dbUp
    /\ dbUp' = FALSE
    /\ UNCHANGED <<users, tests, completions, tasks, responses, created, tcCall>>
    /\ UNCHANGED clientVars

DbStart ==
    /\ ~dbUp
    /\ dbUp' = TRUE
    /\ UNCHANGED <<users, tests, completions, tasks, responses, created, tcCall>>
    /\ UNCHANGED clientVars

----------------------------------------------------------------------------
(* The client application: values, storage and the pure parts of App *)

MaxSubmits == 1

STORAGE_KEY_DARK_MODE == "testTrackerDarkMode"
STORAGE_KEY_USER == "testTrackerUser"
StorageKeys == { STORAGE_KEY_DARK_MODE, STORAGE_KEY_USER }

\* shared User values a response or a stored text can carry
ClientUsers ==
    { [id |-> 1, username |-> <<"a", "l">>], [id |-> 2, username |-> <<"b", "0">>] }

\* What the login form's fields can hold; <<>> and "" are the empty strings.
FormUsernames == { <<>>, <<"a", "l">> }
FormPasswords == { <<>>, <<"p", "w">> }

\* str::is_empty
is_empty(s) == Len(s) = 0

\* {:?} formatting of a value, and format!("<prefix>{v:?}")
DebugFmt(v) == <<"Debug", v>>
FormatWith(prefix, v) == <<prefix>> \o DebugFmt(v)

\* A RON text is the sequence of its pieces: punctuation marks, names, and the
\* characters (or runs of characters) of its strings.

\* The decimal text of a small number
IdText(id) == <<"0", "1", "2", "3", "4", "5", "6", "7", "8", "9">>[id + 1]

\* A mutant of EscapeChar: no character is escaped.
EscapeCharNone(c) == c

\* The escape of a character inside a RON string
EscapeChar(c) ==
    CASE c = "\"" -> "\\\""
      [] c = "\\" -> "\\\\"
      [] OTHER -> c

\* A String: its characters, escaped, between double quotes
RonStr(s) == <<"\"">> \o [i \in DOMAIN s |-> EscapeChar(s[i])] \o <<"\"">>

\* An Option<String>
RonOption(o) ==
    IF o = NONE
    THEN <<"None">>
    ELSE <<"Some", "(">> \o RonStr(o.value) \o <<")">>

\* A User: a struct with named fields
RonUser(u) ==
    <<"(", "id", ":">> \o RonStr(<<IdText(u.id)>>)
    \o <<",", "username", ":">> \o RonStr(u.username) \o <<")">>

\* A DieselError
RonDieselError(e) ==
    CASE e.tag = "NotFound" -> <<"NotFound">>
      [] e.tag = "UniqueViolation" ->
            <<"UniqueViolation", "(">> \o RonStr(<<e.message>>) \o <<",">>
            \o RonOption(e.details) \o <<",">> \o RonOption(e.hint) \o <<")">>
      [] e.tag = "Other" -> <<"Other", "(">> \o RonStr(e.text) \o <<")">>

\* A shared Error
RonError(e) ==
    CASE e.tag = "DatabaseError" ->
            <<"DatabaseError", "(">> \o RonDieselError(e.inner) \o <<")">>
      [] e.tag = "InvalidPassword" -> <<"InvalidPassword">>
      [] e.tag = "HashingError" ->
            <<"HashingError", "(">> \o RonStr(e.text) \o <<")">>

\* A TestData: the number that tells the tests of the model apart is its
\* subject, every other field is empty
RonTestData(test) ==
    <<"(", "subject", ":">> \o RonStr(<<IdText(test.id)>>)
    \o <<",", "topic", ":", "None", ",", "date_or_id", ":">> \o RonStr(<<>>)
    \o <<",", "qualification_level", ":", "None", ",", "exam_board", ":",
         "None", ",", "paper_link", ":", "None", ",", "mark_scheme_link", ":",
         "None", ",", "comments", ":", "None", ")">>

\* A TestAndCompletions: the tuple of a test and the vector of its
\* completions (the entries used here have none)
RonTestAndCompletions(entry) ==
    <<"(">> \o RonTestData(entry.test) \o <<",", "[", "]", ")">>

\* A Vec<TestAndCompletions>, from entry i on
RECURSIVE RonListFrom(_, _)
RonListFrom(list, i) ==
    IF i > Len(list)
    THEN <<"]">>
    ELSE (IF i > 1 THEN <<",">> ELSE <<>>)
         \o RonTestAndCompletions(list[i]) \o RonListFrom(list, i + 1)

\* A Result<User, Error> or a Result<Vec<TestAndCompletions>, Error>
RonResult(type, r) ==
    IF ~r.ok
    THEN <<"Err", "(">> \o RonError(r.error) \o <<")">>
    ELSE IF type = "AuthenticationResponse"
    THEN <<"Ok", "(">> \o RonUser(r.value) \o <<")">>
    ELSE <<"Ok", "(", "[">> \o RonListFrom(r.value, 1) \o <<")">>

\* A ClientToServerMsg or a ServerToClientMsg
RonMsg(m) ==
    CASE m.type \in {"Authenticate", "CreateUser"} ->
            <<m.type, "(", "username", ":">> \o RonStr(m.username)
            \o <<",", "password", ":">> \o RonStr(m.password) \o <<")">>
      [] m.type = "GetTestsAndCompletions" ->
            <<m.type, "(", "user_id", ":">> \o RonStr(<<IdText(m.user_id)>>)
            \o <<")">>
      [] OTHER -> <<m.type, "(">> \o RonResult(m.type, m.payload) \o <<")">>

\* ron::to_string of a User or of a message
RonToString(v) == IF "type" \in DOMAIN v THEN RonMsg(v) ELSE RonUser(v)

\* A text that is not the RON of any value
GarbageText == <<"not ron">>

\* ron::from_str::<T>: the value of type T whose text s is, an error if s is
\* the text of no value of T
RonFromStr(s, T) ==
    IF \E v \in T : RonToString(v) = s
    THEN Ok(CHOOSE v \in T : RonToString(v) = s)
    ELSE Err([tag |-> "ron::error::SpannedError"])

\* A Storage with no item
EmptyStorage == [k \in StorageKeys |-> NONE]

\* Storage::set_item
set_item(storage, key, value) == [storage EXCEPT ![key] = Some(value)]

\* get_item_from_storage::<User>: None for a missing item and for a text that
\* does not deserialize
get_item_from_storage(storage, key) ==
    IF storage[key] = NONE
    THEN NONE
    ELSE LET r == RonFromStr(storage[key].value, ClientUsers)
         IN IF r.ok THEN Some(r.value) ELSE NONE

\* A mutant of get_user: sessionStorage first.
get_userSessionFirst(ls, ss) ==
    IF get_item_from_storage(ss, STORAGE_KEY_USER) # NONE
    THEN get_item_from_storage(ss, STORAGE_KEY_USER)
    ELSE get_item_from_storage(ls, STORAGE_KEY_USER)

\* get_user: localStorage, then sessionStorage
get_user(ls, ss) ==
    IF get_item_from_storage(ls, STORAGE_KEY_USER) # NONE
    THEN get_item_from_storage(ls, STORAGE_KEY_USER)
    ELSE get_item_from_storage(ss, STORAGE_KEY_USER)

\* impl Default for App
DefaultApp(ls, ss) ==
    [user |-> get_user(ls, ss), tests_and_completions |-> <<>>,
     error_message |-> NONE]

\* App::view: which screen the match on self.user renders
Screen(a) == IF a.user = NONE THEN "login" ELSE "main"

\* LoginOrCreateAccountForm::create
NewForm == [tab |-> "Login", error |-> NONE]

\* ServerToClientMsg as the client decodes it
Stc_AuthenticationResponse(result) ==
    [type |-> "AuthenticationResponse", payload |-> result]
Stc_TestsAndCompletionsForUser(result) ==
    [type |-> "TestsAndCompletionsForUser", payload |-> result]

\* UniqueViolation details naming another column than username
OtherColumnDetails ==
    Some(<<"Key (", "id", ")=(", "1", ") already exists.">>)

\* The shared Error values a response can carry
ClientSharedErrors ==
    { SharedError_InvalidPassword,
      SharedError_DatabaseError(DieselError_NotFound),
      SharedError_DatabaseError(DieselErrorFrom(
          DsErr_UniqueViolation(UniqueViolationInfo(<<"a", "l">>)))),
      SharedError_DatabaseError(
          DieselError_UniqueViolation("duplicate key", NONE, NONE)),
      SharedError_DatabaseError(
          DieselError_UniqueViolation("duplicate key", OtherColumnDetails, NONE)),
      SharedError_DatabaseError(DieselError_Other(<<"Debug", "BrokenTransaction">>)),
      SharedError_HashingError(<<"Debug", "Password">>) }

\* The record list the server holds for a user id: one TestAndCompletions
\* entry, different for each user
RecordListOf(user_id) == << [test |-> [id |-> user_id], completions |-> <<>>] >>

ServerToClientMsgs ==
    { Stc_AuthenticationResponse(Ok(u)) : u \in ClientUsers }
    \cup { Stc_AuthenticationResponse(Err(e)) : e \in ClientSharedErrors }
    \cup { Stc_TestsAndCompletionsForUser(Ok(RecordListOf(u.id))) :
              u \in ClientUsers }
    \cup { Stc_TestsAndCompletionsForUser(
               Err(SharedError_DatabaseError(DieselError_NotFound))),
           Stc_TestsAndCompletionsForUser(
               Err(SharedError_DatabaseError(
                   DieselError_Other(<<"Debug", "BrokenTransaction">>)))) }

\* How a post can end: send() fails, text() fails, or a body arrives
PostOutcomes ==
    { [kind |-> "send_error"], [kind |-> "text_error"],
      [kind |-> "body", body |-> GarbageText] }
    \cup { [kind |-> "body", body |-> RonToString(m)] : m \in ServerToClientMsgs }

----------------------------------------------------------------------------
(* The client application: AppMsg, send_message_to_server! and App::update *)

AppMsg_ChangeErrorMessage(m) == [type |-> "ChangeErrorMessage", message |-> m]
AppMsg_SharedError(e) == [type |-> "SharedError", error |-> e]
AppMsg_UnknownError(e) == [type |-> "UnknownError", error |-> e]
AppMsg_UnexpectedServerMsg(m) == [type |-> "UnexpectedServerMsg", msg |-> m]
AppMsg_AuthenticateUser(user, remember_me) ==
    [type |-> "AuthenticateUser", user |-> user, remember_me |-> remember_me]
AppMsg_SetTestsAndCompletionsList(list) ==
    [type |-> "SetTestsAndCompletionsList", list |-> list]

\* A mutant of AuthenticationReaction: a successful result is not acted upon.
AuthenticationReactionDropsOk(result, remember_me) ==
    IF result.ok
    THEN AppMsg_ChangeErrorMessage(NONE)
    ELSE AppMsg_SharedError(result.error)

\* onsubmit_login_or_create_account!: the reaction to AuthenticationResponse
AuthenticationReaction(result, remember_me) ==
    IF result.ok
    THEN AppMsg_AuthenticateUser(result.value, remember_me)
    ELSE AppMsg_SharedError(result.error)

\* refresh_tests_and_completions_list: the reaction to
\* TestsAndCompletionsForUser
TestsAndCompletionsReaction(result) ==
    IF result.ok
    THEN AppMsg_SetTestsAndCompletionsList(result.value)
    ELSE AppMsg_SharedError(result.error)

\* The $expected_result pattern of the future that posted msg
ExpectedVariant(msg) ==
    IF msg.type = "GetTestsAndCompletions"
    THEN "TestsAndCompletionsForUser"
    ELSE "AuthenticationResponse"

\* send_message_to_server!: the AppMsg the future of request req resolves to
\* when its post ends with outcome
AppMsgFor(req, outcome) ==
    CASE outcome.kind = "send_error" ->
            AppMsg_UnknownError([tag |-> "reqwest::Error", at |-> "send"])
      [] outcome.kind = "text_error" ->
            AppMsg_UnknownError([tag |-> "reqwest::Error", at |-> "text"])
      [] OTHER ->
            LET r == RonFromStr(outcome.body, ServerToClientMsgs)
            IN  IF ~r.ok
                THEN AppMsg_UnknownError(r.error)
                ELSE IF r.value.type # ExpectedVariant(req.msg)
                THEN AppMsg_UnexpectedServerMsg(r.value)
                ELSE IF r.value.type = "AuthenticationResponse"
                THEN AuthenticationReaction(r.value.payload, req.remember_me)
                ELSE TestsAndCompletionsReaction(r.value.payload)

\* A mutant of StoresAfterAuthenticateUser: localStorage always,
\* sessionStorage if remember_me.
StoresAfterAuthenticateUserSwapped(ls, ss, user, remember_me) ==
    LET user_str == RonToString(user)
    IN  [localStorage |-> set_item(ls, STORAGE_KEY_USER, user_str),
         sessionStorage |-> IF remember_me
                            THEN set_item(ss, STORAGE_KEY_USER, user_str)
                            ELSE ss]

\* App::update, AuthenticateUser arm: the two set_item calls
StoresAfterAuthenticateUser(ls, ss, user, remember_me) ==
    LET user_str == RonToString(user)
    IN  [localStorage |-> IF remember_me
                          THEN set_item(ls, STORAGE_KEY_USER, user_str)
                          ELSE ls,
         sessionStorage |-> set_item(ss, STORAGE_KEY_USER, user_str)]

\* App::update, AuthenticateUser arm: the assignments to self
AppAfterAuthenticateUser(a, user) ==
    [user |-> Some(user), tests_and_completions |-> <<>>, error_message |-> NONE]

\* A mutant of MentionsUsername: any present details count.
MentionsUsernameAnyDetails(details) == details # NONE

\* details.clone().is_some_and(|s| s.contains("username"))
MentionsUsername(details) ==
    /\ details # NONE
    /\ \E i \in DOMAIN details.value : details.value[i] = "username"

\* A mutant of SharedErrorArm: NotFound falls through to the alert arm.
SharedErrorArmNotFoundAlerts(error) ==
    CASE error = SharedError_InvalidPassword -> "invalid"
      [] /\ error.tag = "DatabaseError"
         /\ error.inner.tag = "UniqueViolation"
         /\ MentionsUsername(error.inner.details) -> "taken"
      [] OTHER -> "alert"

\* App::update, SharedError: the arm of the match an error takes
SharedErrorArm(error) ==
    CASE \/ error = SharedError_DatabaseError(DieselError_NotFound)
         \/ error = SharedError_InvalidPassword -> "invalid"
      [] /\ error.tag = "DatabaseError"
         /\ error.inner.tag = "UniqueViolation"
         /\ MentionsUsername(error.inner.details) -> "taken"
      [] OTHER -> "alert"

\* A mutant of AppAfterSharedError: the last arm sets the error message too.
AppAfterSharedErrorAlertSetsMessage(a, error) ==
    CASE SharedErrorArm(error) = "invalid" ->
            [a EXCEPT !.error_message = Some(<<"Invalid username or password">>)]
      [] SharedErrorArm(error) = "taken" ->
            [a EXCEPT !.error_message = Some(<<"Username already taken">>)]
      [] OTHER -> [a EXCEPT !.error_message = Some(DebugFmt(error))]

\* App::update, SharedError: the assignments to self
AppAfterSharedError(a, error) ==
    CASE SharedErrorArm(error) = "invalid" ->
            [a EXCEPT !.error_message = Some(<<"Invalid username or password">>)]
      [] SharedErrorArm(error) = "taken" ->
            [a EXCEPT !.error_message = Some(<<"Username already taken">>)]
      [] OTHER -> a

\* App::update, SharedError: the call of window.alert
AlertsAfterSharedError(al, error) ==
    IF SharedErrorArm(error) = "alert"
    THEN Append(al, FormatWith("Error: ", error))
    ELSE al

\* App::update: the state after msg; refresh tells whether
\* refresh_tests_and_completions_list is called
Update(a, ls, ss, al, msg) ==
    LET same == [app |-> a, localStorage |-> ls, sessionStorage |-> ss,
                 alerts |-> al, refresh |-> FALSE]
    IN  CASE msg.type = "AuthenticateUser" ->
                LET st == StoresAfterAuthenticateUser(ls, ss, msg.user,
                                                      msg.remember_me)
                IN  [app |-> AppAfterAuthenticateUser(a, msg.user),
                     localStorage |-> st.localStorage,
                     sessionStorage |-> st.sessionStorage,
                     alerts |-> al, refresh |-> TRUE]
          [] msg.type = "SetTestsAndCompletionsList" ->
                [same EXCEPT !.app.tests_and_completions = msg.list]
          [] msg.type = "ChangeErrorMessage" ->
                [same EXCEPT !.app.error_message = msg.message]
          [] msg.type = "UnexpectedServerMsg" ->
                [same EXCEPT !.app.error_message = Some(DebugFmt(msg.msg))]
          [] msg.type = "SharedError" ->
                [same EXCEPT !.app = AppAfterSharedError(a, msg.error),
                             !.alerts = AlertsAfterSharedError(al, msg.error)]
          [] msg.type = "UnknownError" ->
                [same EXCEPT !.alerts =
                    Append(al, FormatWith("Unknown error: ", msg.error))]

----------------------------------------------------------------------------
(* The client application: its steps *)

Tabs == { "Login", "CreateAccount" }

\* No step of the client yet
NoStep == [event |-> "none"]

\* No value is on its way through the RON functions
NoWire == [stage |-> "none"]

\* The client before App::create, over the two storages the browser holds
ClientBoot(ls, ss) ==
    /\ phase = "boot"
    /\ app = [user |-> NONE, tests_and_completions |-> <<>>,
              error_message |-> NONE]
    /\ form = NewForm
    /\ localStorage = ls
    /\ sessionStorage = ss
    /\ inflight = {}
    /\ sent = <<>>
    /\ alerts = <<>>
    /\ submissions = 0
    /\ last = NoStep
    /\ wire = NoWire

\* The callback future that posted msg as the id-th request
Future(id, msg, remember_me) ==
    [id |-> id, msg |-> msg, remember_me |-> remember_me]

\* A mutant of RefreshRequest: the id in the message is always 1.
RefreshRequestFirstId(a) == Msg_GetTestsAndCompletions(1)

\* refresh_tests_and_completions_list: the message, with the user's id
RefreshRequest(a) == Msg_GetTestsAndCompletions(a.user.value.id)

\* App::create: App::default(), and a refresh if a user was restored
Create ==
    /\ phase = "boot"
    /\ phase' = "running"
    /\ LET a == DefaultApp(localStorage, sessionStorage)
       IN  /\ app' = a
           /\ IF a.user # NONE
              THEN /\ sent' = Append(sent, RefreshRequest(a))
                   /\ inflight' = inflight \cup
                         { Future(Len(sent) + 1, RefreshRequest(a), FALSE) }
              ELSE UNCHANGED <<sent, inflight>>
    /\ last' = [event |-> "create",
                pre |-> [localStorage |-> localStorage,
                         sessionStorage |-> sessionStorage]]
    /\ UNCHANGED <<form, localStorage, sessionStorage, alerts, submissions>>
    /\ UNCHANGED <<serverVars, wire>>

\* LoginOrCreateAccountForm::update, ChangeTab
ChangeTab(tab) ==
    /\ phase = "running"
    /\ Screen(app) = "login"
    /\ form' = [tab |-> tab, error |-> NONE]
    /\ last' = [event |-> "tab", tab |-> tab,
                pre |-> [app |-> app, sent |-> sent, inflight |-> inflight,
                         alerts |-> alerts, localStorage |-> localStorage,
                         sessionStorage |-> sessionStorage]]
    /\ UNCHANGED <<phase, app, localStorage, sessionStorage, inflight, sent,
                   alerts, submissions>>
    /\ UNCHANGED <<serverVars, wire>>

\* A mutant of FormRejects: only a form with both fields empty is rejected.
FormRejectsBothEmpty(username, password) ==
    is_empty(username) /\ is_empty(password)

\* create_onsubmit_callback: the test that turns a submission into ChangeError
FormRejects(username, password) ==
    is_empty(username) \/ is_empty(password)

\* onsubmit_login_or_create_account!, $pre_send: the early return
PreSendRejects(username, password) ==
    is_empty(username) \/ is_empty(password)

\* A mutant of SubmitMessage: the two callbacks are exchanged.
SubmitMessageExchanged(tab, username, password) ==
    IF tab = "Login"
    THEN Msg_CreateUser(username, password)
    ELSE Msg_Authenticate(username, password)

\* onsubmit_login = ...!(Authenticate), onsubmit_create_account = ...!(CreateUser)
SubmitMessage(tab, username, password) ==
    IF tab = "Login"
    THEN Msg_Authenticate(username, password)
    ELSE Msg_CreateUser(username, password)

\* Rejected submissions leave the state as it is; the others are counted, up
\* to cap.
MaySubmit(cap, username, password) ==
    FormRejects(username, password) \/ submissions < cap

\* The form is submitted: create_onsubmit_callback, then
\* LoginOrCreateAccountForm::update, then the callback of App for the tab
SubmitForm(username, password, remember_me) ==
    /\ phase = "running"
    /\ Screen(app) = "login"
    /\ last' = [event |-> "submit", username |-> username,
                password |-> password, remember_me |-> remember_me,
                tab |-> form.tab,
                pre |-> [app |-> app, sent |-> sent, inflight |-> inflight]]
    /\ IF FormRejects(username, password)
       THEN /\ form' = [form EXCEPT !.error =
                           Some(<<"Please enter a username and password">>)]
            /\ UNCHANGED <<app, inflight, sent, submissions>>
       ELSE /\ submissions' = submissions + 1
            /\ UNCHANGED form
            /\ IF PreSendRejects(username, password)
               THEN /\ app' = Update(app, localStorage, sessionStorage, alerts,
                                AppMsg_ChangeErrorMessage(Some(
                                    <<"Please enter a username or password">>))).app
                    /\ UNCHANGED <<inflight, sent>>
               ELSE /\ sent' = Append(sent,
                                 SubmitMessage(form.tab, username, password))
                    /\ inflight' = inflight \cup
                          { Future(Len(sent) + 1,
                                   SubmitMessage(form.tab, username, password),
                                   remember_me) }
                    /\ UNCHANGED app
    /\ UNCHANGED <<phase, localStorage, sessionStorage, alerts>>
    /\ UNCHANGED <<serverVars, wire>>

\* The post of a callback future ends, the future resolves to an AppMsg and
\* App::update handles it
Deliver(req, outcome) ==
    /\ phase = "running"
    /\ req \in inflight
    /\ LET msg == AppMsgFor(req, outcome)
           u == Update(app, localStorage, sessionStorage, alerts, msg)
       IN  /\ app' = u.app
           /\ localStorage' = u.localStorage
           /\ sessionStorage' = u.sessionStorage
           /\ alerts' = u.alerts
           /\ IF u.refresh
              THEN /\ sent' = Append(sent, RefreshRequest(u.app))
                   /\ inflight' = (inflight \ {req}) \cup
                         { Future(Len(sent) + 1, RefreshRequest(u.app), FALSE) }
              ELSE /\ inflight' = inflight \ {req}
                   /\ UNCHANGED sent
           /\ last' = [event |-> "update", msg |-> msg, req |-> req,
                       outcome |-> outcome,
                       pre |-> [app |-> app, localStorage |-> localStorage,
                                sessionStorage |-> sessionStorage,
                                alerts |-> alerts, sent |-> sent]]
    /\ UNCHANGED <<phase, form, submissions>>
    /\ UNCHANGED <<serverVars, wire>>


NoTcCall == [fn |-> "none"]

InitCred ==
    /\ users = {}
    /\ tests = {}
    /\ completions = {}
    /\ dbUp = TRUE
    /\ tasks = [t \in TaskIds |-> IdleTask]
    /\ responses = [t \in TaskIds |-> <<>>]
    /\ created = {}
    /\ tcCall = NoTcCall
    /\ ClientBoot(EmptyStorage, EmptyStorage)

NextCred ==
    \/ \E t \in TaskIds : Receive(t)
    \/ \E t \in TaskIds : CallValidateUser(t)
    \/ \E t \in TaskIds : CallAddNewUser(t)
    \/ \E t \in TaskIds : NoArm(t)
    \/ \E t \in TaskIds : Respond(t)
    \/ DbStop
    \/ DbStart

\* The credential store behind the request handler, from an empty users table.
SpecCred == InitCred /\ [][NextCred]_vars

----------------------------------------------------------------------------
(* Tables tests and completions, and the record store query *)

\* The displayed fields of a tests row
TestFields ==
    { [subject |-> "maths", topic |-> Some("statistics"),
       date_or_id |-> "Mock Set 1", qualification_level |-> Some("A Level"),
       exam_board |-> Some("Edexcel")],
      [subject |-> "maths", topic |-> NONE,
       date_or_id |-> "Mock Set 1", qualification_level |-> Some("A Level"),
       exam_board |-> Some("Edexcel")] }

\* The data fields of a completions row
CompletionFields ==
    { [achieved_mark |-> 40, total_marks |-> 50, date |-> "2023-06-05",
       comments |-> NONE],
      [achieved_mark |-> 45, total_marks |-> 50, date |-> "2023-06-05",
       comments |-> NONE] }

\* impl From<Test> for TestData: drops id and user_id
TestDataFrom(test) ==
    [subject |-> test.subject, topic |-> test.topic,
     date_or_id |-> test.date_or_id,
     qualification_level |-> test.qualification_level,
     exam_board |-> test.exam_board]

\* impl From<Completion> for CompletionData: drops id and test_id
CompletionDataFrom(completion) ==
    [achieved_mark |-> completion.achieved_mark,
     total_marks |-> completion.total_marks,
     date |-> completion.date, comments |-> completion.comments]

\* The sequences that enumerate the finite set S once each: the orders in
\* which a query without ORDER BY, or a HashMap iterator, may yield S.
Orders(S) ==
    { f \in [1..Cardinality(S) -> S] :
        \A i, j \in 1..Cardinality(S) : f[i] = f[j] => i = j }

\* A mutant of JoinRows: the filter on users.id is missing.
JoinRowsNoFilter(usersTbl, testsTbl, completionsTbl, user_id) ==
    { r \in testsTbl \X completionsTbl :
        /\ \E u \in usersTbl : r[1].user_id = u.id
        /\ r[2].test_id = r[1].id }

\* A mutant of JoinRows: tests and completions are joined without their join
\* condition.
JoinRowsNoJoinCondition(usersTbl, testsTbl, completionsTbl, user_id) ==
    { r \in testsTbl \X completionsTbl :
        \E u \in usersTbl : u.id = user_id /\ r[1].user_id = u.id }

\* users INNER JOIN (tests INNER JOIN completions) WHERE users.id = user_id,
\* selecting (Test, Completion)
JoinRows(usersTbl, testsTbl, completionsTbl, user_id) ==
    { r \in testsTbl \X completionsTbl :
        /\ \E u \in usersTbl : u.id = user_id /\ r[1].user_id = u.id
        /\ r[2].test_id = r[1].id }

\* A mutant of GroupStep: a later completion replaces the group's list.
GroupStepOverwrite(map, test, completion) ==
    IF test \in DOMAIN map
    THEN [map EXCEPT ![test] = <<completion>>]
    ELSE map @@ (test :> <<completion>>)

\* The body of the for loop: match map.get_mut(&test) { None => insert,
\* Some(completions) => push }
GroupStep(map, test, completion) ==
    IF test \in DOMAIN map
    THEN [map EXCEPT ![test] = Append(@, completion)]
    ELSE map @@ (test :> <<completion>>)

\* The for loop over the loaded rows, from row i on
RECURSIVE GroupRows(_, _, _)
GroupRows(rows, i, map) ==
    IF i > Len(rows)
    THEN map
    ELSE GroupRows(rows, i + 1,
                   GroupStep(map, TestDataFrom(rows[i][1]),
                             CompletionDataFrom(rows[i][2])))

\* HashMap::new()
EmptyMap == [k \in {} |-> <<>>]

\* get_all_tests_and_completions_for_user, once the connection is
\* established: the vectors it can return, over the orders in which the rows
\* are loaded and in which map.into_iter() yields the entries.
GetAllResults(usersTbl, testsTbl, completionsTbl, user_id) ==
    UNION { LET map == GroupRows(rows, 1, EmptyMap)
            IN { Ok(out) : out \in Orders({ <<k, map[k]>> : k \in DOMAIN map }) }
            : rows \in Orders(JoinRows(usersTbl, testsTbl, completionsTbl, user_id)) }

\* A row enters table tests (the id is the next of the serial column; user_id
\* references an existing users row).
InsertTest ==
    /\ dbUp
    /\ Cardinality(tests) < MaxTests
    /\ \E f \in TestFields, u \in users :
          tests' = tests \cup
              {[id |-> Cardinality(tests) + 1, subject |-> f.subject,
                topic |-> f.topic, date_or_id |-> f.date_or_id,
                qualification_level |-> f.qualification_level,
                exam_board |-> f.exam_board, user_id |-> u.id]}
    /\ UNCHANGED <<users, completions, dbUp, tasks, responses, created, tcCall>>
    /\ UNCHANGED clientVars

\* A row enters table completions (test_id references an existing tests row).
InsertCompletion ==
    /\ dbUp
    /\ Cardinality(completions) < MaxCompletions
    /\ \E f \in CompletionFields, t \in tests :
          completions' = completions \cup
              {[id |-> Cardinality(completions) + 1,
                achieved_mark |-> f.achieved_mark,
                total_marks |-> f.total_marks, date |-> f.date,
                comments |-> f.comments, test_id |-> t.id]}
    /\ UNCHANGED <<users, tests, dbUp, tasks, responses, created, tcCall>>
    /\ UNCHANGED clientVars

\* The user ids a caller may pass: those of the users rows and one of no row
QueriedUserIds == { u.id : u \in users } \cup { 0 }

\* A call of get_all_tests_and_completions_for_user(user_id).
GetAllTestsAndCompletionsForUser ==
    /\ \E user_id \in QueriedUserIds :
          IF ~dbUp
          THEN tcCall' = [fn |-> "get_all_tests_and_completions_for_user",
                          user_id |-> user_id, outcome |-> "panicked"]
          ELSE \E r \in GetAllResults(users, tests, completions, user_id) :
                  tcCall' = [fn |-> "get_all_tests_and_completions_for_user",
                             user_id |-> user_id, outcome |-> "returned",
                             result |-> r,
                             tests |-> tests,
                             completions |-> completions]
    /\ UNCHANGED <<users, tests, completions, dbUp, tasks, responses, created>>
    /\ UNCHANGED clientVars

\* Two users, created by add_new_user, and no tests yet.
InitRec ==
    /\ users = AddNewUserOutcome(
                   AddNewUserOutcome({}, <<"A", "l">>, "secret123", 1).users,
                   <<"b", "0">>, "wrong", 1).users
    /\ tests = {}
    /\ completions = {}
    /\ dbUp = TRUE
    /\ tasks = [t \in TaskIds |-> IdleTask]
    /\ responses = [t \in TaskIds |-> <<>>]
    /\ created = {}
    /\ tcCall = NoTcCall
    /\ ClientBoot(EmptyStorage, EmptyStorage)

NextRec ==
    \/ InsertTest
    \/ InsertCompletion
    \/ GetAllTestsAndCompletionsForUser
    \/ DbStop
    \/ DbStart

\* The record store query over growing tests and completions tables.
SpecRec == InitRec /\ [][NextRec]_vars

----------------------------------------------------------------------------
(* The client over the storages a browser can hold at startup *)

\* localStorage at startup: no user item, the text of a User, or another text
InitialLocalStorages ==
    { EmptyStorage,
      set_item(EmptyStorage, STORAGE_KEY_USER,
               RonToString([id |-> 1, username |-> <<"a", "l">>])),
      set_item(EmptyStorage, STORAGE_KEY_USER, GarbageText) }

\* sessionStorage at startup, likewise
InitialSessionStorages ==
    { EmptyStorage,
      set_item(EmptyStorage, STORAGE_KEY_USER,
               RonToString([id |-> 2, username |-> <<"b", "0">>])),
      set_item(EmptyStorage, STORAGE_KEY_USER, GarbageText) }

InitClient ==
    /\ users = {}
    /\ tests = {}
    /\ completions = {}
    /\ dbUp = TRUE
    /\ tasks = [t \in TaskIds |-> IdleTask]
    /\ responses = [t \in TaskIds |-> <<>>]
    /\ created = {}
    /\ tcCall = NoTcCall
    /\ \E ls \in InitialLocalStorages, ss \in InitialSessionStorages :
          ClientBoot(ls, ss)

NextClient ==
    \/ Create
    \/ \E tab \in Tabs : ChangeTab(tab)
    \/ \E username \in FormUsernames, password \in FormPasswords,
          remember_me \in BOOLEAN :
             /\ MaySubmit(MaxSubmits, username, password)
             /\ SubmitForm(username, password, remember_me)
    \/ \E req \in inflight, outcome \in PostOutcomes : Deliver(req, outcome)

\* The client application against a server answering in any way.
SpecClient == InitClient /\ [][NextClient]_vars

----------------------------------------------------------------------------
(* The client against a server that answers every request successfully,    *)
(* with several submissions made before the first answer arrives           *)

MaxRaceSubmits == 2

\* The usernames of the two accounts
RaceUsernames == { u.username : u \in ClientUsers }

\* The account a username belongs to
UserNamed(username) == CHOOSE u \in ClientUsers : u.username = username

\* The successful answer to a message: the account of the username, or the
\* record list of the user id
AnswerTo(msg) ==
    IF msg.type = "GetTestsAndCompletions"
    THEN Stc_TestsAndCompletionsForUser(Ok(RecordListOf(msg.user_id)))
    ELSE Stc_AuthenticationResponse(Ok(UserNamed(msg.username)))

\* The post of a request ending with the body of its successful answer
SuccessOutcome(req) == [kind |-> "body", body |-> RonToString(AnswerTo(req.msg))]

InitRace ==
    /\ users = {}
    /\ tests = {}
    /\ completions = {}
    /\ dbUp = TRUE
    /\ tasks = [t \in TaskIds |-> IdleTask]
    /\ responses = [t \in TaskIds |-> <<>>]
    /\ created = {}
    /\ tcCall = NoTcCall
    /\ ClientBoot(EmptyStorage, EmptyStorage)

NextRace ==
    \/ Create
    \/ \E tab \in Tabs : ChangeTab(tab)
    \/ \E username \in RaceUsernames, password \in FormPasswords,
          remember_me \in BOOLEAN :
             /\ MaySubmit(MaxRaceSubmits, username, password)
             /\ SubmitForm(username, password, remember_me)
    \/ \E req \in inflight : Deliver(req, SuccessOutcome(req))

\* The client, logged out at startup, against a server that has the two
\* accounts and answers every request successfully, in any order.
SpecRace == InitRace /\ [][NextRace]_vars

----------------------------------------------------------------------------
(* The envelopes through ron::to_string and ron::from_str *)

\* Strings with and without the characters RON escapes; the last two hold a
\* closing quote followed by the text of a field
RonUsernames ==
    { <<>>, <<"a">>, <<"a", "l">>, <<"\\">>,
      <<"a", "\"", ",", "password", ":", "\"">> }
RonPasswords ==
    { <<>>, <<"b">>, <<"p", "w">>,
      <<"\"", ",", "password", ":", "\"", "b">> }

\* Values of ClientToServerMsg, of every variant
RonRequests ==
    { Msg_Authenticate(u, p) : u \in RonUsernames, p \in RonPasswords }
    \cup { Msg_CreateUser(u, p) : u \in RonUsernames, p \in RonPasswords }
    \cup { Msg_GetTestsAndCompletions(id) : id \in {1, 2} }

\* Values of shared Error, of every variant
RonErrors ==
    ClientSharedErrors
    \cup { SharedError_DatabaseError(
               DieselError_UniqueViolation("duplicate key", Some(<<>>),
                                           Some(<<"h", "\"">>))),
           SharedError_DatabaseError(
               DieselError_UniqueViolation("duplicate key", NONE, Some(<<>>))),
           SharedError_DatabaseError(DieselError_Other(<<>>)),
           SharedError_HashingError(<<>>) }

\* Values of ServerToClientMsg, of every variant, Ok and Err
RonResponses ==
    { Stc_AuthenticationResponse(Ok([id |-> id, username |-> u])) :
          id \in {1, 2}, u \in RonUsernames }
    \cup { Stc_AuthenticationResponse(Err(e)) : e \in RonErrors }
    \cup { Stc_TestsAndCompletionsForUser(Ok(list)) :
              list \in { <<>>, RecordListOf(1), RecordListOf(2),
                         RecordListOf(1) \o RecordListOf(2),
                         RecordListOf(2) \o RecordListOf(1) } }
    \cup { Stc_TestsAndCompletionsForUser(Err(e)) : e \in RonErrors }

\* The type a value on the wire is decoded as
WireType(v) == IF v \in RonRequests THEN RonRequests ELSE RonResponses

\* ron::to_string of the envelope
Encode ==
    /\ wire.stage = "value"
    /\ wire' = [wire EXCEPT !.stage = "text", !.text = RonToString(wire.value)]
    /\ UNCHANGED <<serverVars, phase, app, form, localStorage, sessionStorage,
                   inflight, sent, alerts, submissions, last>>

\* ron::from_str of the text at the other end
Decode ==
    /\ wire.stage = "text"
    /\ wire' = [wire EXCEPT !.stage = "decoded",
                            !.back = RonFromStr(wire.text, WireType(wire.value))]
    /\ UNCHANGED <<serverVars, phase, app, form, localStorage, sessionStorage,
                   inflight, sent, alerts, submissions, last>>

InitRon ==
    /\ users = {}
    /\ tests = {}
    /\ completions = {}
    /\ dbUp = TRUE
    /\ tasks = [t \in TaskIds |-> IdleTask]
    /\ responses = [t \in TaskIds |-> <<>>]
    /\ created = {}
    /\ tcCall = NoTcCall
    /\ phase = "boot"
    /\ app = [user |-> NONE, tests_and_completions |-> <<>>,
              error_message |-> NONE]
    /\ form = NewForm
    /\ localStorage = EmptyStorage
    /\ sessionStorage = EmptyStorage
    /\ inflight = {}
    /\ sent = <<>>
    /\ alerts = <<>>
    /\ submissions = 0
    /\ last = NoStep
    /\ \E v \in RonRequests \cup RonResponses :
          wire = [stage |-> "value", value |-> v, text |-> <<>>, back |-> NONE]

NextRon ==
    \/ Encode
    \/ Decode

\* An envelope of either direction, written by one side and read by the other.
SpecRon == InitRon /\ [][NextRon]_vars

----------------------------------------------------------------------------
(* Properties of the credential store and the request handler *)

FoldEq(u, v) == to_lowercase(u) = to_lowercase(v)

\* The store function task t called has returned.
Returned(t, fn) == tasks[t].call.fn = fn

\* The payload of the response task t sent, once it has sent one.
Responded(t) == Len(responses[t]) > 0
Payload(t) == responses[t][1].payload

IsUniqueViolation(e) ==
    /\ e.tag = "DatabaseError"
    /\ e.inner.tag = "UniqueViolation"

\* C1: once add_new_user(u, p) has returned Ok(user), a validate_user(u', p)
\* called afterwards with u' equal to u up to letter case returns
\* Ok(User{id: user.id, username: lowercase(u)}), and that is the payload sent.
C1_CreateThenAuthenticate ==
    \A t \in TaskIds :
        Returned(t, "validate_user") =>
            \A c \in tasks[t].before :
                (FoldEq(c.username, tasks[t].call.username)
                 /\ c.password = tasks[t].call.password) =>
                    LET expected == Ok([id |-> c.user.id,
                                        username |-> to_lowercase(c.username)])
                    IN /\ tasks[t].call.result = expected
                       /\ Responded(t) => Payload(t) = expected

C1_Witness ==
    \E t \in TaskIds :
        /\ tasks[t].pc = "done"
        /\ Returned(t, "validate_user")
        /\ tasks[t].call.result.ok
        /\ \E c \in tasks[t].before :
              /\ FoldEq(c.username, tasks[t].call.username)
              /\ c.username # tasks[t].call.username
              /\ c.password = tasks[t].call.password

\* C2: a validate_user call with a wrong password for a stored username makes
\* the client see Err(InvalidPassword) in the AuthenticationResponse payload.
C2_WrongPasswordIsInvalidPassword ==
    \A t \in TaskIds :
        (/\ Returned(t, "validate_user")
         /\ Responded(t)
         /\ \E c \in tasks[t].before :
               /\ FoldEq(c.username, tasks[t].call.username)
               /\ c.password # tasks[t].call.password) =>
            Payload(t) = Err(SharedError_InvalidPassword)

\* C3: add_new_user(u', p) called when a user created under a name equal to
\* u' up to letter case exists returns a uniqueness violation, never Ok, and
\* the payload sent is DatabaseError(UniqueViolation).
C3_DuplicateUsernameRejected ==
    \A t \in TaskIds :
        (/\ Returned(t, "add_new_user")
         /\ \E c \in tasks[t].before :
               FoldEq(c.username, tasks[t].call.username)) =>
            /\ ~tasks[t].call.result.ok
            /\ tasks[t].call.result.error.tag = "DbError"
            /\ IsUniqueViolation(SharedErrorFrom(tasks[t].call.result.error))
            /\ Responded(t) =>
                  /\ ~Payload(t).ok
                  /\ IsUniqueViolation(Payload(t).error)

C3_Witness ==
    \E t \in TaskIds :
        /\ tasks[t].pc = "done"
        /\ Returned(t, "add_new_user")
        /\ ~tasks[t].call.result.ok
        /\ \E c \in tasks[t].before :
              /\ FoldEq(c.username, tasks[t].call.username)
              /\ c.username # tasks[t].call.username

\* The add_new_user calls that have returned for a name equal to u up to case
CreateCallsFor(u) ==
    { t \in TaskIds :
        Returned(t, "add_new_user") /\ FoldEq(tasks[t].call.username, u) }

\* C4: among the add_new_user calls of concurrently running tasks for the
\* same case-folded username, exactly one returns Ok and every other one
\* returns a uniqueness violation, under every interleaving.
C4_OneWinnerPerUsername ==
    \A u \in Usernames :
        CreateCallsFor(u) # {} =>
            /\ Cardinality({ t \in CreateCallsFor(u) : tasks[t].call.result.ok }) = 1
            /\ \A t \in CreateCallsFor(u) :
                  ~tasks[t].call.result.ok =>
                      IsUniqueViolation(SharedErrorFrom(tasks[t].call.result.error))

\* Task 1 was spawned first and task 2 inserted first: the two overlapped.
C4_Witness ==
    /\ tasks[1].pc = "done" /\ tasks[2].pc = "done"
    /\ Returned(1, "add_new_user") /\ Returned(2, "add_new_user")
    /\ FoldEq(tasks[1].call.username, tasks[2].call.username)
    /\ tasks[1].call.username # tasks[2].call.username
    /\ tasks[2].call.result.ok
    /\ ~tasks[1].call.result.ok

\* C5: validate_user for a username whose case-folded form is not stored
\* returns DbError(NotFound), sent as DatabaseError(NotFound), whatever the
\* password.
C5_UnknownUsernameNotFound ==
    \A t \in TaskIds :
        (/\ Returned(t, "validate_user")
         /\ ~\E c \in tasks[t].before :
               FoldEq(c.username, tasks[t].call.username)) =>
            /\ tasks[t].call.result = Err(NewUserError_DbError(DsErr_NotFound))
            /\ Responded(t) =>
                  Payload(t) = Err(SharedError_DatabaseError(DieselError_NotFound))

C5_Witness ==
    \E t \in TaskIds :
        /\ tasks[t].pc = "done"
        /\ Returned(t, "validate_user")
        /\ tasks[t].before # {}
        /\ ~\E c \in tasks[t].before :
               FoldEq(c.username, tasks[t].call.username)
        /\ \E c \in tasks[t].before : c.password = tasks[t].call.password

\* C10: a task handling a well-formed Authenticate or CreateUser request
\* calls validate_user, respectively add_new_user, on the request's username
\* and password, and sends exactly one response, an AuthenticationResponse
\* whose payload is that call's result; it never sends a second one.
C10_OneAuthenticationResponse ==
    \A t \in TaskIds :
        /\ Len(responses[t]) <= 1
        /\ tasks[t].pc \in {"idle", "parsed", "respond"} => ~Responded(t)
        /\ tasks[t].pc \in {"respond", "done"} =>
              /\ tasks[t].call.fn =
                    (IF tasks[t].msg.type = "Authenticate"
                     THEN "validate_user" ELSE "add_new_user")
              /\ tasks[t].call.username = tasks[t].msg.username
              /\ tasks[t].call.password = tasks[t].msg.password
        /\ tasks[t].pc = "done" =>
              /\ Len(responses[t]) = 1
              /\ responses[t][1].type = "AuthenticationResponse"
              /\ IF tasks[t].call.result.ok
                 THEN Payload(t) = tasks[t].call.result
                 ELSE /\ ~Payload(t).ok
                      /\ Payload(t).error = SharedErrorFrom(tasks[t].call.result.error)

C10_Witness ==
    /\ tasks[1].pc = "done" /\ tasks[2].pc = "done"
    /\ tasks[1].msg.type = "CreateUser" /\ tasks[2].msg.type = "Authenticate"
    /\ Payload(1).ok
    /\ ~Payload(2).ok

----------------------------------------------------------------------------
(* Properties of the record store query *)

TcReturned == tcCall.fn # "none" /\ tcCall.outcome = "returned"

\* The vector the call returned
Groups == tcCall.result.value

\* The tests the queried user owned, and a test's completions, when the call
\* read the tables
Owned == { t \in tcCall.tests : t.user_id = tcCall.user_id }
CompletionsOf(t) == { c \in tcCall.completions : c.test_id = t.id }

Occurrences(seq, d) == Cardinality({ i \in DOMAIN seq : seq[i] = d })

\* Entry i is test t's group: t's displayed fields with t's completions as a
\* multiset.
IsGroupOf(i, t) ==
    /\ Groups[i][1] = TestDataFrom(t)
    /\ Len(Groups[i][2]) = Cardinality(CompletionsOf(t))
    /\ \A d \in CompletionFields :
          Occurrences(Groups[i][2], d) =
              Cardinality({ c \in CompletionsOf(t) : CompletionDataFrom(c) = d })

\* C6: two distinct tests of the queried user (different primary keys) form
\* two distinct groups, each with its own completions, also when their
\* displayed fields are equal. Stated for tests that have completions, which
\* the inner join keeps.
C6_DistinctTestsDistinctGroups ==
    TcReturned =>
        \A t1, t2 \in Owned :
            (/\ t1.id # t2.id
             /\ CompletionsOf(t1) # {}
             /\ CompletionsOf(t2) # {}) =>
                \E i, j \in DOMAIN Groups :
                    i # j /\ IsGroupOf(i, t1) /\ IsGroupOf(j, t2)

\* C7: the call returns one entry per test the user owns, whatever the number
\* of the test's completions: as many entries as owned tests.
C7_OneEntryPerOwnedTest ==
    TcReturned =>
        /\ tcCall.result.ok
        /\ Len(Groups) = Cardinality(Owned)

\* C8: for a user owning exactly one test, which has n >= 1 completions, the
\* call returns exactly one group, holding the test's n completions as a
\* multiset.
C8_OneTestOneGroupAllCompletions ==
    TcReturned =>
        \A t \in Owned :
            (Owned = {t} /\ CompletionsOf(t) # {}) =>
                /\ tcCall.result.ok
                /\ Len(Groups) = 1
                /\ IsGroupOf(1, t)

C8_Witness ==
    /\ TcReturned
    /\ \E t \in Owned :
          /\ Owned = {t}
          /\ Cardinality(CompletionsOf(t)) >= 2
    /\ \E t \in tcCall.tests : t \notin Owned

\* C9: for a user who owns no test, and for a user_id of no user, the call
\* returns Ok of the empty vector.
C9_NoTestsEmptyList ==
    (TcReturned /\ Owned = {}) => tcCall.result = Ok(<<>>)

C9_Witness ==
    /\ TcReturned
    /\ Owned = {}
    /\ \E u \in users : u.id = tcCall.user_id
    /\ \E t \in tcCall.tests : CompletionsOf(t) # {}

----------------------------------------------------------------------------
(* Properties of the request handler: record requests, transport, outages *)

\* The handler of task t has ended: it returned or it panicked.
Ended(t) == tasks[t].pc \in {"done", "failed", "unhandled", "panicked"}

\* C11: a task handling a well-formed GetTestsAndCompletions request sends
\* exactly one response, of variant TestsAndCompletionsForUser.
C11_OneTestsAndCompletionsResponse ==
    \A t \in TaskIds :
        (tasks[t].msg.type = "GetTestsAndCompletions" /\ Ended(t)) =>
            /\ Len(responses[t]) = 1
            /\ responses[t][1].type = "TestsAndCompletionsForUser"

\* A failed business operation is answered with status 200 and the typed Err
\* as payload.
BusinessErrorIsHttp200 ==
    \A t \in TaskIds :
        (/\ tasks[t].pc = "done"
         /\ ~tasks[t].call.result.ok) =>
            /\ Len(responses[t]) = 1
            /\ responses[t][1].status = 200
            /\ Payload(t) = Err(SharedErrorFrom(tasks[t].call.result.error))

\* C12: a failed business operation is answered with status 200 and the typed
\* Err as payload, and only a malformed request ends without such a response
\* (a transport-level error).
C12_TransportErrorOnlyIfMalformed ==
    /\ BusinessErrorIsHttp200
    /\ \A t \in TaskIds :
          (/\ Ended(t)
           /\ tasks[t].msg.type \in {"Authenticate", "CreateUser"}) =>
              /\ Len(responses[t]) = 1
              /\ responses[t][1].status = 200

\* C13: a store function called while the store is unreachable returns an
\* error to its caller: no task aborts.
C13_UnreachableStoreIsTypedError ==
    /\ \A t \in TaskIds : tasks[t].pc # "panicked"
    /\ tcCall.fn # "none" => tcCall.outcome # "panicked"

----------------------------------------------------------------------------
(* Properties of the client application *)

\* The latest step was App::update handling the response body that carries
\* server message m, received for an Authenticate or CreateUser request.
ProcessedAuthenticationBody(m) ==
    /\ last.event = "update"
    /\ last.req.msg.type \in {"Authenticate", "CreateUser"}
    /\ last.outcome = [kind |-> "body", body |-> RonToString(m)]

ProcessedOk(u) == ProcessedAuthenticationBody(Stc_AuthenticationResponse(Ok(u)))
ProcessedErr(e) == ProcessedAuthenticationBody(Stc_AuthenticationResponse(Err(e)))

\* The storages are as they were before the latest step.
StoragesUntouched ==
    /\ localStorage = last.pre.localStorage
    /\ sessionStorage = last.pre.sessionStorage

\* C14: once AuthenticationResponse(Ok(user)) for an Authenticate or CreateUser
\* request has been processed, the client is logged in as exactly that user
\* and shows the main screen, and the main screen is never left again.
C14_OkResponseLogsIn ==
    /\ [](\A u \in ClientUsers :
             ProcessedOk(u) => (app.user = Some(u) /\ Screen(app) = "main"))
    /\ [][Screen(app) = "main" => Screen(app') = "main"]_vars

C14_Witness ==
    \E u \in ClientUsers :
        /\ ProcessedOk(u)
        /\ last.pre.app.user = NONE
        /\ app.user = Some(u)

\* C15 as stated: a processed successful response writes the serialized User
\* under the user key to localStorage (the durable store) whatever the
\* "remember me" flag, and to sessionStorage if and only if the flag was set.
C15_DurableAlwaysSessionIfRemembered ==
    \A u \in ClientUsers :
        ProcessedOk(u) =>
            /\ localStorage =
                  set_item(last.pre.localStorage, STORAGE_KEY_USER, RonToString(u))
            /\ sessionStorage =
                  IF last.req.remember_me
                  THEN set_item(last.pre.sessionStorage, STORAGE_KEY_USER,
                                RonToString(u))
                  ELSE last.pre.sessionStorage

\* C15, amended: a processed successful response writes the serialized User
\* under the user key to sessionStorage (the session-scoped store) whatever
\* the "remember me" flag, and to localStorage (the durable store) if and only
\* if the flag was set.
C15_SessionAlwaysDurableIfRemembered ==
    \A u \in ClientUsers :
        ProcessedOk(u) =>
            /\ sessionStorage =
                  set_item(last.pre.sessionStorage, STORAGE_KEY_USER,
                           RonToString(u))
            /\ localStorage =
                  IF last.req.remember_me
                  THEN set_item(last.pre.localStorage, STORAGE_KEY_USER,
                                RonToString(u))
                  ELSE last.pre.localStorage

C15_Witness ==
    \E u \in ClientUsers :
        /\ ProcessedOk(u)
        /\ ~last.req.remember_me
        /\ localStorage[STORAGE_KEY_USER] = NONE
        /\ sessionStorage[STORAGE_KEY_USER] = Some(RonToString(u))

\* C16: a logged-out client that processes the authentication failure
\* InvalidPassword or DatabaseError(NotFound) stays logged out, persists
\* nothing and shows "Invalid username or password".
C16_BadCredentialsMessage ==
    \A e \in { SharedError_InvalidPassword,
               SharedError_DatabaseError(DieselError_NotFound) } :
        (ProcessedErr(e) /\ last.pre.app.user = NONE) =>
            /\ app.user = NONE
            /\ StoragesUntouched
            /\ app.error_message = Some(<<"Invalid username or password">>)

C16_Witness ==
    /\ ProcessedErr(SharedError_DatabaseError(DieselError_NotFound))
    /\ last.pre.app.error_message = NONE
    /\ app.error_message = Some(<<"Invalid username or password">>)

\* The UniqueViolation errors of ClientSharedErrors
UniqueViolations ==
    { e \in ClientSharedErrors :
        e.tag = "DatabaseError" /\ e.inner.tag = "UniqueViolation" }

\* The details of a UniqueViolation are present and have the word "username".
DetailsNameUsername(e) ==
    /\ e.inner.details.tag = "Some"
    /\ \E i \in 1..Len(e.inner.details.value) :
          e.inner.details.value[i] = "username"

\* C17: a logged-out client that processes a UniqueViolation whose details are
\* present and mention "username" stays logged out and shows "Username already
\* taken"; a UniqueViolation with absent details, or details not mentioning
\* the username, does not set that message.
C17_UsernameTakenMessage ==
    \A e \in UniqueViolations :
        (ProcessedErr(e) /\ last.pre.app.user = NONE) =>
            /\ app.user = NONE
            /\ IF DetailsNameUsername(e)
               THEN app.error_message = Some(<<"Username already taken">>)
               ELSE app.error_message = last.pre.app.error_message

C17_Witness ==
    \E e \in UniqueViolations :
        /\ ProcessedErr(e)
        /\ DetailsNameUsername(e)
        /\ app.user = NONE
        /\ app.error_message = Some(<<"Username already taken">>)

\* The business errors other than bad credentials and a taken username
OtherBusinessErrors ==
    { e \in ClientSharedErrors :
        /\ e # SharedError_InvalidPassword
        /\ e # SharedError_DatabaseError(DieselError_NotFound)
        /\ ~(e \in UniqueViolations /\ DetailsNameUsername(e)) }

\* The latest step was App::update handling the end of a post in a response
\* that carries Err(e).
ProcessedBusinessError(e) ==
    /\ last.event = "update"
    /\ \/ /\ last.req.msg.type \in {"Authenticate", "CreateUser"}
          /\ last.outcome = [kind |-> "body", body |->
                RonToString(Stc_AuthenticationResponse(Err(e)))]
       \/ /\ last.req.msg.type = "GetTestsAndCompletions"
          /\ last.outcome = [kind |-> "body", body |->
                RonToString(Stc_TestsAndCompletionsForUser(Err(e)))]

\* The latest step was App::update handling a post that failed in transport
\* or whose body did not deserialize.
ProcessedTransportError ==
    /\ last.event = "update"
    /\ \/ last.outcome.kind \in {"send_error", "text_error"}
       \/ last.outcome = [kind |-> "body", body |-> GarbageText]

\* The latest step gave window.alert one text, made of prefix and detail.
AlertedOnce(prefix, detail) ==
    /\ Len(alerts) = Len(last.pre.alerts) + 1
    /\ SubSeq(alerts, 1, Len(last.pre.alerts)) = last.pre.alerts
    /\ alerts[Len(alerts)] = <<prefix, "Debug", detail>>

\* C18: processing any other business error, or a transport or
\* deserialization error, raises one alert carrying the error and leaves the
\* user, the record list, the error message and both storages as they were.
C18_OtherErrorsAlertOnly ==
    /\ \A e \in OtherBusinessErrors :
          ProcessedBusinessError(e) =>
              /\ AlertedOnce("Error: ", e)
              /\ app = last.pre.app
              /\ StoragesUntouched
    /\ ProcessedTransportError =>
          /\ AlertedOnce("Unknown error: ", last.msg.error)
          /\ app = last.pre.app
          /\ StoragesUntouched

C18_Witness ==
    /\ ProcessedBusinessError(SharedError_HashingError(<<"Debug", "Password">>))
    /\ Len(alerts) = 1
    /\ app.user = NONE

\* The text under the user key of storage is the RON of user u.
HoldsUser(storage, u) == storage[STORAGE_KEY_USER] = Some(RonToString(u))
HoldsAUser(storage) == \E u \in ClientUsers : HoldsUser(storage, u)

\* C19: App::create restores the user of localStorage if its text is one,
\* otherwise the user of sessionStorage if its text is one, and then is logged
\* in and has posted exactly one GetTestsAndCompletions with that user's id;
\* otherwise it is logged out and has posted nothing.
C19_StartupRestoresUser ==
    last.event = "create" =>
        /\ \A u \in ClientUsers :
              HoldsUser(localStorage, u) =>
                  /\ app.user = Some(u)
                  /\ sent = <<Msg_GetTestsAndCompletions(u.id)>>
        /\ \A u \in ClientUsers :
              (~HoldsAUser(localStorage) /\ HoldsUser(sessionStorage, u)) =>
                  /\ app.user = Some(u)
                  /\ sent = <<Msg_GetTestsAndCompletions(u.id)>>
        /\ (~HoldsAUser(localStorage) /\ ~HoldsAUser(sessionStorage)) =>
              /\ app.user = NONE
              /\ sent = <<>>
        /\ Cardinality(inflight) = Len(sent)
        /\ StoragesUntouched

C19_Witness ==
    /\ last.event = "create"
    /\ HoldsAUser(localStorage)
    /\ HoldsAUser(sessionStorage)
    /\ app.user # NONE
    /\ HoldsUser(localStorage, app.user.value)
    /\ ~HoldsUser(sessionStorage, app.user.value)
    /\ Len(sent) = 1

\* C20: a submission of the form with an empty username or an empty password
\* posts nothing and starts no future, leaves the client logged out and sets
\* the form's error to "Please enter a username and password".
C20_EmptyFieldsNotSent ==
    (/\ last.event = "submit"
     /\ (Len(last.username) = 0 \/ Len(last.password) = 0)) =>
        /\ sent = last.pre.sent
        /\ inflight = last.pre.inflight
        /\ app = last.pre.app
        /\ app.user = NONE
        /\ form.error = Some(<<"Please enter a username and password">>)

C20_Witness ==
    /\ last.event = "submit"
    /\ Len(last.username) > 0
    /\ Len(last.password) = 0
    /\ sent = <<>>
    /\ form.error = Some(<<"Please enter a username and password">>)

----------------------------------------------------------------------------
(* Properties of the credential store: writes, projection, uniqueness *)

\* Task t leaves its store call in this step, by returning or by panicking.
LeavesStoreCall(t) == tasks[t].pc = "parsed" /\ tasks'[t].pc # "parsed"

\* Task t's store call returns in this step.
StoreCallReturns(t) == tasks[t].pc = "parsed" /\ tasks'[t].pc = "respond"

\* C22: an add_new_user call that returns Ok adds exactly one row to users and
\* changes no other row; a validate_user call, whatever it returns, leaves
\* users as it was.
C22_OneWriteOnCreateNoneOnAuthenticate ==
    [][\A t \in TaskIds :
          /\ (LeavesStoreCall(t) /\ tasks[t].msg.type = "Authenticate") =>
                users' = users
          /\ (/\ StoreCallReturns(t)
              /\ tasks[t].msg.type = "CreateUser"
              /\ tasks'[t].call.result.ok) =>
                /\ users \subseteq users'
                /\ Cardinality(users' \ users) = 1]_vars

C22_Witness ==
    \E s, t \in TaskIds :
        /\ Returned(s, "add_new_user")
        /\ tasks[s].call.result.ok
        /\ Returned(t, "validate_user")
        /\ Cardinality(users) = 1

\* C23: the payload of every response is either Ok of a value with the fields
\* id and username only, or an Err whose error has no hashed_password field.
C23_NoHashedPasswordInResponses ==
    \A t \in TaskIds :
        \A i \in 1..Len(responses[t]) :
            LET p == responses[t][i].payload
            IN  IF p.ok
                THEN DOMAIN p.value = {"id", "username"}
                ELSE /\ "hashed_password" \notin DOMAIN p.error
                     /\ p.error.tag = "DatabaseError" =>
                           "hashed_password" \notin DOMAIN p.error.inner

C23_Witness ==
    \E t \in TaskIds :
        /\ Responded(t)
        /\ Payload(t).ok
        /\ \E u \in users :
              /\ u.id = Payload(t).value.id
              /\ "hashed_password" \in DOMAIN u

\* Every response handed to req.respond carries Access-Control-Allow-Origin: *.
SentResponsesHaveCorsHeader ==
    \A t \in TaskIds :
        \A i \in 1..Len(responses[t]) :
            [field |-> "Access-Control-Allow-Origin", value |-> "*"]
                \in responses[t][i].headers

\* C24: every request whose handler has returned, with a business result or
\* because the body could not be decoded, was sent a response, and every
\* response sent carries Access-Control-Allow-Origin: *.
C24_EveryRequestAnsweredWithCorsHeader ==
    /\ SentResponsesHaveCorsHeader
    /\ \A t \in TaskIds :
          tasks[t].pc \in {"done", "failed"} => Len(responses[t]) >= 1

\* C27: every stored username is lowercase and no two rows of users have the
\* same username.
C27_UsernamesLowercaseAndUnique ==
    /\ \A u \in users : u.username = to_lowercase(u.username)
    /\ \A u, v \in users : u.username = v.username => u = v

C27_Witness ==
    /\ Cardinality(users) = 2
    /\ \E c \in created : c.username # to_lowercase(c.username)

\* C29: an add_new_user call rejected by a uniqueness violation leaves users
\* as it was, and from then on validate_user with the existing user's name
\* and password returns Ok of that user, with the id it had, while
\* validate_user with the rejected call's different password returns an Err.
C29_RejectedCreateChangesNothing ==
    /\ [][\A t \in TaskIds :
             (/\ StoreCallReturns(t)
              /\ tasks[t].msg.type = "CreateUser"
              /\ ~tasks'[t].call.result.ok) => users' = users]_vars
    /\ [](\A t \in TaskIds :
             (/\ Returned(t, "add_new_user")
              /\ ~tasks[t].call.result.ok
              /\ IsUniqueViolation(SharedErrorFrom(tasks[t].call.result.error))) =>
                \A c \in tasks[t].before :
                    FoldEq(c.username, tasks[t].call.username) =>
                        /\ ValidateUserResults(users, c.username, c.password)
                              = { Ok(c.user) }
                        /\ c.password # tasks[t].call.password =>
                              \A r \in ValidateUserResults(
                                           users, tasks[t].call.username,
                                           tasks[t].call.password) : ~r.ok)

C29_Witness ==
    \E t \in TaskIds :
        /\ Returned(t, "add_new_user")
        /\ ~tasks[t].call.result.ok
        /\ \E c \in tasks[t].before :
              /\ FoldEq(c.username, tasks[t].call.username)
              /\ c.password # tasks[t].call.password
              /\ \E u \in users : u.id = c.user.id

----------------------------------------------------------------------------
(* Properties of the record store query: the completions as a multiset *)

\* The positions <<i, j>> of the completions the call returned: the j-th
\* completion of the i-th group
ReturnedPositions ==
    UNION { { <<i, j>> : j \in DOMAIN Groups[i][2] } : i \in DOMAIN Groups }

\* The completions rows whose test the queried user owned
OwnedCompletions ==
    { c \in tcCall.completions : \E t \in Owned : c.test_id = t.id }

\* C26: over all the groups the call returns, each completion data value
\* occurs as many times as there are completions rows with that data whose
\* test the queried user owns: none of another user's test, none lost, none
\* twice.
C26_ReturnedCompletionsAreTheOwned ==
    TcReturned =>
        /\ tcCall.result.ok
        /\ Cardinality(ReturnedPositions) = Cardinality(OwnedCompletions)
        /\ \A d \in CompletionFields :
              Cardinality({ p \in ReturnedPositions :
                              Groups[p[1]][2][p[2]] = d })
                  = Cardinality({ c \in OwnedCompletions :
                                    CompletionDataFrom(c) = d })

C26_Witness ==
    /\ TcReturned
    /\ Cardinality(OwnedCompletions) = 1
    /\ Cardinality(tcCall.completions) = 2
    /\ Cardinality(ReturnedPositions) = 1

----------------------------------------------------------------------------
(* Properties of the client application: requests and the record list *)

\* The latest step was App::update handling the response body that carries
\* TestsAndCompletionsForUser(Ok(list)), received for a GetTestsAndCompletions
\* request.
ProcessedList(list) ==
    /\ last.event = "update"
    /\ last.req.msg.type = "GetTestsAndCompletions"
    /\ last.outcome = [kind |-> "body", body |->
          RonToString(Stc_TestsAndCompletionsForUser(Ok(list)))]

\* The lists the responses of ServerToClientMsgs carry
ResponseLists ==
    { m.payload.value : m \in { n \in ServerToClientMsgs :
          n.type = "TestsAndCompletionsForUser" /\ n.payload.ok } }

\* C21: the step that processes AuthenticationResponse(Ok(user)) posts one
\* GetTestsAndCompletions carrying user.id and leaves its future in flight;
\* the step that processes TestsAndCompletionsForUser(Ok(list)) for such a
\* request makes the record list that list.
C21_LoginFetchesRecordList ==
    /\ \A u \in ClientUsers :
          ProcessedOk(u) =>
              /\ sent = Append(last.pre.sent, Msg_GetTestsAndCompletions(u.id))
              /\ \E f \in inflight :
                    /\ f.id = Len(sent)
                    /\ f.msg = Msg_GetTestsAndCompletions(u.id)
    /\ \A list \in ResponseLists :
          ProcessedList(list) => app.tests_and_completions = list

C21_Witness ==
    \E list \in ResponseLists :
        /\ ProcessedList(list)
        /\ Len(sent) = 2
        /\ sent[1].type \in {"Authenticate", "CreateUser"}
        /\ app.user # NONE
        /\ sent[2] = Msg_GetTestsAndCompletions(app.user.value.id)
        /\ app.tests_and_completions = list
        /\ list # <<>>

\* C30: a submission with both fields filled posts exactly one message, an
\* Authenticate if the Login tab was selected and a CreateUser if the
\* CreateAccount tab was, with the username and password entered; a change of
\* tab selects the tab, clears the form's error, posts nothing and leaves the
\* rest of the client as it was.
C30_TabDeterminesRequest ==
    /\ (/\ last.event = "submit"
        /\ Len(last.username) > 0
        /\ Len(last.password) > 0) =>
          /\ sent = Append(last.pre.sent,
                IF last.tab = "Login"
                THEN [type |-> "Authenticate", username |-> last.username,
                      password |-> last.password]
                ELSE [type |-> "CreateUser", username |-> last.username,
                      password |-> last.password])
          /\ Cardinality(inflight) = Cardinality(last.pre.inflight) + 1
    /\ last.event = "tab" =>
          /\ form = [tab |-> last.tab, error |-> NONE]
          /\ sent = last.pre.sent
          /\ inflight = last.pre.inflight
          /\ app = last.pre.app
          /\ alerts = last.pre.alerts
          /\ StoragesUntouched

C30_Witness ==
    /\ last.event = "submit"
    /\ last.tab = "CreateAccount"
    /\ Len(sent) = 1
    /\ sent[1].type = "CreateUser"
    /\ sent[1].username = last.username
    /\ Len(last.username) > 0

\* C28: a non-empty record list held by the client is the list of the user
\* who is logged in, and whenever a response to GetTestsAndCompletions
\* replaces the record list, the request it answers carried that user's id: a
\* list fetched for an earlier user never becomes the list of a different
\* user.
C28_ListIsOfLoggedInUser ==
    /\ app.tests_and_completions # <<>> =>
          /\ app.user # NONE
          /\ app.tests_and_completions = RecordListOf(app.user.value.id)
    /\ (/\ last.event = "update"
        /\ last.msg.type = "SetTestsAndCompletionsList") =>
          /\ app.user # NONE
          /\ last.req.msg.user_id = app.user.value.id

====
